---- MODULE Spec2Model ----
(***************************************************************************)
(* Model of sigtypst2022.py: the proto-gap merge (ungap), the pattern      *)
(* matrix construction (simple_align), the correspondence-pattern          *)
(* classifier (CorPaRClassifier) and the orchestrator (Baseline).          *)
(*                                                                         *)
(* A cell of an alignment is a Python string.  It is modelled as the       *)
(* sequence of the sound tokens that the string joins with '.': "a" is     *)
(* <<"a">>, "a.b" is <<"a", "b">>, "" is << >> and the gap "-" is <<"-">>. *)
(* Python lists are sequences (index 1 is Python's index 0) and Python     *)
(* dicts, whose iteration order is the insertion order, are sequences of   *)
(* records [k |-> key, v |-> value].                                       *)
(***************************************************************************)
EXTENDS Integers, Sequences, FiniteSets, TLC

VARIABLES
    pc,          \* position of the driver: which call has returned
    alignment,   \* ungap/simple_align: the alignment handed in
    languages,   \* ungap/simple_align: the languages of its rows
    proto,       \* ungap: the reference language
    once,        \* ungap: result of the first pass
    twice,       \* ungap: result of the pass over the first result
    all_languages, \* simple_align: the languages of the matrix columns
    training,    \* simple_align: the training flag
    matrix,      \* simple_align: the matrix returned, or Raise
    X,           \* CorPaRClassifier.fit: the training rows
    y,           \* CorPaRClassifier.fit: the training targets
    G,           \* CorPaRClassifier.G: nodes with freq, edges with weight
    cliques,     \* what find_cliques(G) yielded, in the order it yielded it
    patterns,    \* CorPaRClassifier.patterns
    lookup,      \* CorPaRClassifier.lookup
    predictions, \* CorPaRClassifier.predictions
    ptnlkp,      \* CorPaRClassifier.ptnlkp
    queries,     \* the matrices handed to predict so far
    out,         \* what the predict calls returned so far
    data,        \* Baseline.data: the cognate table, row by row
    alignments,  \* Baseline.alignments: the training instances per language
    to_predict,  \* Baseline.to_predict: the languages marked "?" per cognate set
    bpatterns,   \* Baseline.patterns: per language, pattern -> sound -> places
    sound2idx,   \* Baseline.sound2idx
    matrices,    \* Baseline.matrices
    solutions,   \* Baseline.solutions
    classifiers, \* Baseline.classifiers: the tables of each language's classifier
    request,     \* the arguments of the Baseline.predict call
    result,      \* what Baseline.predict returned
    aligner      \* where the alignment step puts its gaps: "left" or "right"

ungapVars == <<proto, once, twice>>
alignVars == <<all_languages, training, matrix>>
fitVars == <<G, cliques, patterns, lookup, ptnlkp>>
clfVars == <<X, y, fitVars, predictions, queries, out>>
blVars == <<data, alignments, to_predict, bpatterns, sound2idx, matrices,
            solutions, classifiers, request, result, aligner>>
vars == <<pc, alignment, languages, ungapVars, alignVars, clfVars, blVars>>

\* ------------------------------------------------------------------ bounds
MaxCols == 2      \* columns of an alignment
MaxRows == 2      \* rows (languages) of an alignment handed to ungap
MaxTrain == 2     \* distinct training tuples in SpecPredict
MaxPredicts == 1  \* predict calls after a fit
FitSrcMax == 1    \* largest source index in SpecFit
FitTgtMax == 2    \* largest target index in SpecFit
FitRows == 5      \* distinct training tuples in SpecFit
MaxFormLen == 2   \* sounds of a word form in SpecBaseline
MaxCalls == 2     \* predict calls after a fit in SpecHistory
ScoreRows == 3    \* distinct training tuples in SpecScore

LanguageNames == <<"A", "B", "C">>
\* source positions of a pattern: the languages other than the target
Width == Len(LanguageNames) - 1
\* alphabet indices in SpecPredict: missing, gap and one sound
Indices == 0..2

\* ------------------------------------------------------- general helpers
Gap == <<"-">>
Empty == << >>
None == "None"
\* what a call that may raise hands back: the exception, or the value
Raise == [raised |-> TRUE, value |-> << >>]
Return(v) == [raised |-> FALSE, value |-> v]
Missing == <<"Ø">>   \* the default of simple_align's parameter missing

Range(s) == {s[i] : i \in 1..Len(s)}

Last(s) == s[Len(s)]

\* the parts of the state a driver does not use
IdleUngap == proto = None /\ once = None /\ twice = None
IdleAlign == all_languages = None /\ training = None /\ matrix = None
IdleClassifier ==
    /\ X = << >> /\ y = << >>
    /\ G = None /\ cliques = << >> /\ patterns = << >> /\ lookup = << >>
    /\ predictions = << >> /\ ptnlkp = << >> /\ queries = << >> /\ out = << >>

IdleBaseline ==
    /\ data = << >> /\ alignments = None /\ to_predict = None
    /\ bpatterns = None /\ sound2idx = None /\ matrices = None
    /\ solutions = None /\ classifiers = None /\ request = None /\ result = None
    /\ aligner = None

\* all sequences over S of length exactly n
RECURSIVE SeqsOfLen(_, _)
SeqsOfLen(S, n) ==
    IF n = 0 THEN {<< >>}
    ELSE {Append(s, x) : s \in SeqsOfLen(S, n - 1), x \in S}

\* ------------------------------------------------------------------ ungap
\* pidxs: the rows of the reference language
Pidxs(langs, prt) == {i \in 1..Len(langs) : langs[i] = prt}

\* col_rest of column i: the sites of the rows outside pidxs
ColRest(alm, langs, prt, i) ==
    {alm[j][i] : j \in (1..Len(alm)) \ Pidxs(langs, prt)}

\* merges: "-" in col_rest and len(set(col_rest)) == 1
Merges(alm, langs, prt) ==
    {i \in 1..Len(alm[1]) : ColRest(alm, langs, prt, i) = {Gap}}

\* new_alm[-1] += cell, or += '.' + cell when the cell is not empty
AppendToLast(new_alm, cell) ==
    [new_alm EXCEPT ![Len(new_alm)] = @ \o cell]

\* MergeRow with the merge forgotten: every remaining cell is a cell of its own
MergeRowNoMerge(row, j, merges, new_alm, mergeit, started) ==
    new_alm \o SubSeq(row, j, Len(row))

\* the loop over the cells of one row, from cell j on
RECURSIVE MergeRow(_, _, _, _, _, _)
MergeRow(row, j, merges, new_alm, mergeit, started) ==
    IF j > Len(row) THEN new_alm
    ELSE IF j \in merges \/ mergeit
    THEN IF ~started
         THEN MergeRow(row, j + 1, merges,
                       IF row[j] = Gap THEN new_alm
                       ELSE AppendToLast(new_alm, row[j]),
                       FALSE, started)
         ELSE MergeRow(row, j + 1, merges,
                       Append(new_alm, IF row[j] = Gap THEN Empty ELSE row[j]),
                       TRUE, started)
    ELSE MergeRow(row, j + 1, merges, Append(new_alm, row[j]), mergeit, FALSE)

\* cells left empty become the gap
FillGaps(new_alm) ==
    [k \in 1..Len(new_alm) |-> IF new_alm[k] = Empty THEN Gap ELSE new_alm[k]]

ungap(alm, langs, prt) ==
    LET merges == Merges(alm, langs, prt)
    IN  IF merges # {}
        THEN [i \in 1..Len(alm) |->
                 FillGaps(MergeRow(alm[i], 1, merges, << >>, FALSE, TRUE))]
        ELSE alm

\* ------------------------------------------------- ungap: driver and inputs
Sounds == {<<"a">>, <<"b">>}
Cells == Sounds \cup {Gap}

\* equal-row-length alignments of 2..MaxRows rows and 1..MaxCols columns
EqualAlignments ==
    UNION {SeqsOfLen(SeqsOfLen(Cells, c), r) : c \in 1..MaxCols, r \in 2..MaxRows}

InitUngap ==
    /\ pc = "start"
    /\ alignment \in EqualAlignments
    /\ languages = SubSeq(LanguageNames, 1, Len(alignment))
    /\ proto \in Range(languages)
    /\ once = None
    /\ twice = None
    /\ IdleAlign /\ IdleClassifier /\ IdleBaseline

UngapOnce ==
    /\ pc = "start"
    /\ once' = ungap(alignment, languages, proto)
    /\ pc' = "once"
    /\ UNCHANGED <<alignment, languages, proto, twice, alignVars, clfVars, blVars>>

UngapTwice ==
    /\ pc = "once"
    /\ twice' = ungap(once, languages, proto)
    /\ pc' = "twice"
    /\ UNCHANGED <<alignment, languages, proto, once, alignVars, clfVars, blVars>>

NextUngap == UngapOnce \/ UngapTwice

SpecUngap == InitUngap /\ [][NextUngap]_vars

\* ------------------------------------------------------ claims about ungap
NonMergeable(alm, langs, prt) == (1..Len(alm[1])) \ Merges(alm, langs, prt)

\* C3: merge idempotence: a second pass of ungap over the output of the first
\* returns that output, and the output of the first pass has no mergeable
\* column (a column whose non-reference rows are all the gap).
C3_MergeIdempotent ==
    /\ pc \in {"once", "twice"} => Merges(once, languages, proto) = {}
    /\ pc = "twice" => twice = once

\* C8: the output of ungap has one column per non-mergeable input column,
\* plus one when the input starts with a mergeable column (a leading run of
\* mergeable columns becomes one cell).
C8_ColumnsAfterMerge ==
    pc = "once" =>
        \A r \in 1..Len(once) :
            Len(once[r]) =
                Cardinality(NonMergeable(alignment, languages, proto))
                + (IF 1 \in Merges(alignment, languages, proto) THEN 1 ELSE 0)

\* C3 as amended: a second pass of ungap returns the output of the first; and
\* when the first column of the input is not mergeable, the output of the
\* first pass has no mergeable column.
C3_IdempotentNoLeading ==
    /\ pc = "twice" => twice = once
    /\ (pc \in {"once", "twice"} /\ 1 \notin Merges(alignment, languages, proto))
          => Merges(once, languages, proto) = {}

\* a merge happened in the first pass, and the second pass has run
C3_Witness ==
    /\ pc = "twice"
    /\ Merges(alignment, languages, proto) # {}
    /\ 1 \notin Merges(alignment, languages, proto)
    /\ once # alignment

\* what the code does besides: without a leading mergeable column there is one
\* output column per non-mergeable column; with one, the input comes back
UngapObserved ==
    /\ (pc = "once" /\ 1 \notin Merges(alignment, languages, proto)) =>
          \A r \in 1..Len(once) :
                Len(once[r]) = Cardinality(NonMergeable(alignment, languages, proto))
    /\ (pc = "once" /\ 1 \in Merges(alignment, languages, proto)) =>
          once = alignment

\* ----------------------------------------------------------- simple_align
\* row[i] raises IndexError for some row when a row is shorter than row 0
ShortRow(alm) == \E j \in 1..Len(alm) : Len(alm[j]) < Len(alm[1])

\* matrix[i][all_languages.index(lng)] = alms[j][i], the other cells missing
MatrixOf(alms, langs, all_langs) ==
    [i \in 1..Len(alms[1]) |->
        [l \in 1..Len(all_langs) |->
            IF \E j \in 1..Len(langs) : langs[j] = all_langs[l]
            THEN alms[CHOOSE j \in 1..Len(langs) : langs[j] = all_langs[l]][i]
            ELSE Missing]]

\* simple_align from the alignment step's result alms on; the alignment
\* itself (lingpy's Multiple.prog_align or normalize_alignment) is the input
simple_align(alms, langs, all_langs, train) ==
    IF train /\ ShortRow(alms) THEN Raise
    ELSE LET merged == IF train THEN ungap(alms, langs, Last(langs)) ELSE alms
         IN  IF ShortRow(merged) THEN Raise
             ELSE Return(MatrixOf(merged, langs, all_langs))

\* ------------------------------------------ simple_align: driver and inputs
\* what an alignment step may hand over: rows of 1..MaxCols cells each
AnyAlignments ==
    UNION {SeqsOfLen(UNION {SeqsOfLen(Cells, c) : c \in 1..MaxCols}, r) :
              r \in 2..MaxRows}

\* lists of n distinct languages
LangLists(n) ==
    {l \in SeqsOfLen(Range(LanguageNames), n) :
        \A i, j \in 1..n : i # j => l[i] # l[j]}

InitAlign ==
    /\ pc = "start"
    /\ alignment \in AnyAlignments
    /\ languages \in LangLists(Len(alignment))
    /\ all_languages = LanguageNames
    /\ training \in BOOLEAN
    /\ matrix = None
    /\ IdleUngap /\ IdleClassifier /\ IdleBaseline

SimpleAlign ==
    /\ pc = "start"
    /\ matrix' = simple_align(alignment, languages, all_languages, training)
    /\ pc' = "aligned"
    /\ UNCHANGED <<alignment, languages, ungapVars, all_languages, training, clfVars,
                   blVars>>

NextAlign == SimpleAlign

SpecAlign == InitAlign /\ [][NextAlign]_vars

\* ----------------------------------------------- claims about simple_align
UnequalRows(alm) == \E i, j \in 1..Len(alm) : Len(alm[i]) # Len(alm[j])

\* C5: when the alignment step yields rows of unequal length, simple_align
\* raises instead of returning a matrix, whichever row is the shorter one.
C5_UnequalRowsAbort ==
    (pc = "aligned" /\ UnequalRows(alignment)) => matrix.raised

\* what the code does do (not a claim): it raises exactly when some row is
\* shorter than the first row, before or after the merge
AlignObserved ==
    (pc = "aligned" /\ ~training) => (matrix.raised <=> ShortRow(alignment))

\* ======================================================= CorPaRClassifier
\* a pattern is a tuple of alphabet indices; 0 is the missing value
missing == 0
threshold == 1

Min(a, b) == IF a < b THEN a ELSE b

\* ---- Python dicts in insertion order: sequences of [k |-> key, v |-> value]
HasKey(d, key) == \E i \in 1..Len(d) : d[i].k = key
Get(d, key) == d[CHOOSE i \in 1..Len(d) : d[i].k = key].v
GetOr(d, key, default) == IF HasKey(d, key) THEN Get(d, key) ELSE default
Put(d, key, val) ==
    IF HasKey(d, key)
    THEN [i \in 1..Len(d) |-> IF d[i].k = key THEN [k |-> key, v |-> val] ELSE d[i]]
    ELSE Append(d, [k |-> key, v |-> val])
Keys(d) == [i \in 1..Len(d) |-> d[i].k]

\* ptn[:-1] and ptn[-1]
Source(t) == SubSeq(t, 1, Len(t) - 1)
Target(t) == t[Len(t)]

\* compatible: matches and mismatches over the positions where both are set
compatible(ptA, ptB) ==
    LET both == {i \in 1..Min(Len(ptA), Len(ptB)) :
                    ptA[i] # missing /\ ptB[i] # missing}
    IN  [match |-> Cardinality({i \in both : ptA[i] = ptB[i]}),
         mismatch |-> Cardinality({i \in both : ptA[i] # ptB[i]})]

\* consensus: per position the value of the first node that has one
consensus(nodes) ==
    [i \in 1..Len(nodes[1]) |->
        IF \E n \in 1..Len(nodes) : nodes[n][i] # missing
        THEN nodes[CHOOSE n \in 1..Len(nodes) :
                      /\ nodes[n][i] # missing
                      /\ \A m \in 1..(n - 1) : nodes[m][i] = missing][i]
        ELSE missing]

\* P: identical (row, target) tuples grouped, in the order of first occurrence
RECURSIVE GroupRows(_, _, _, _)
GroupRows(rows, targets, i, P) ==
    IF i > Len(rows) THEN P
    ELSE LET t == Append(rows[i], targets[i])
         IN  GroupRows(rows, targets, i + 1, Put(P, t, Append(GetOr(P, t, << >>), i)))

\* the graph: an edge between every two tuples of P that are compatible
Edge(a, b) ==
    LET c == compatible(a, b) IN c.mismatch = 0 /\ c.match >= threshold

BuildGraph(P) ==
    LET edges == {{P[i].k, P[j].k} : i, j \in 1..Len(P)} 
        real == {e \in edges : \E a, b \in e : a # b /\ e = {a, b} /\ Edge(a, b)}
        nodes == UNION real
    IN  [node |-> [n \in nodes |-> Len(Get(P, n))],
         edge |-> [e \in real |->
                      LET a == CHOOSE a \in e : TRUE
                          b == CHOOSE b \in e : b # a
                      IN  compatible(a, b).match]]

Adjacent(g, a, b) == {a, b} \in DOMAIN g.edge

\* find_cliques: the maximal cliques of G (networkx)
IsClique(g, c) == \A a, b \in c : a # b => Adjacent(g, a, b)
MaximalCliques(g) ==
    {c \in SUBSET (DOMAIN g.node) :
        /\ c # {}
        /\ IsClique(g, c)
        /\ \A n \in (DOMAIN g.node) \ c : ~IsClique(g, c \cup {n})}

\* the orders a set can be listed in
RECURSIVE Orders(_)
Orders(S) ==
    IF S = {} THEN {<< >>}
    ELSE UNION {{<<x>> \o s : s \in Orders(S \ {x})} : x \in S}

\* the orders each clique of a list can be listed in
RECURSIVE ListEach(_)
ListEach(cs) ==
    IF cs = << >> THEN {<< >>}
    ELSE {<<c>> \o rest : c \in Orders(cs[1]), rest \in ListEach(Tail(cs))}

\* what find_cliques may yield: every maximal clique once, as a list; the
\* order of the cliques and of the nodes in one follows the iteration order
\* of Python sets of tuples, which the caller does not control
Enumerations(g) == UNION {ListEach(cs) : cs \in Orders(MaximalCliques(g))}

\* ------------------------------------------------------------------- fit
\* for node in nodes: self.lookup[node[:-1]][cons[:-1]] += len(nodes)
RECURSIVE NodeLoop(_, _, _, _)
NodeLoop(lk, nodes, i, src) ==
    IF i > Len(nodes) THEN lk
    ELSE LET own == Source(nodes[i])
             row == GetOr(lk, own, << >>)
         IN  NodeLoop(Put(lk, own, Put(row, src, GetOr(row, src, 0) + Len(nodes))),
                      nodes, i + 1, src)

\* self.patterns[cons[:-1]][cons[-1]] = len(nodes)
RecordClique(pats, nodes) ==
    LET cons == consensus(nodes)
    IN  Put(pats, Source(cons),
            Put(GetOr(pats, Source(cons), << >>), Target(cons), Len(nodes)))

\* the loop over the cliques find_cliques yields
RECURSIVE CliqueLoop(_, _, _)
CliqueLoop(pl, enum, c) ==
    IF c > Len(enum) THEN pl
    ELSE CliqueLoop([patterns |-> RecordClique(pl.patterns, enum[c]),
                     lookup |-> NodeLoop(pl.lookup, enum[c], 1,
                                         Source(consensus(enum[c])))],
                    enum, c + 1)

\* [x for x, y in sorted(d.items(), key=lambda p: p[1], reverse=True)][0]:
\* the first key, in insertion order, among those of the largest value
Best(d) ==
    d[CHOOSE i \in 1..Len(d) :
         /\ \A j \in 1..Len(d) : d[j].v <= d[i].v
         /\ \A j \in 1..(i - 1) : d[j].v < d[i].v].k

\* DirectRules with the size taken for the target (y for x in the comprehension)
DirectRulesSize(pats) ==
    [ptn \in Range(Keys(pats)) |->
        CHOOSE v \in {Get(pats, ptn)[i].v : i \in 1..Len(Get(pats, ptn))} :
            \A i \in 1..Len(Get(pats, ptn)) : Get(pats, ptn)[i].v <= v]

\* for ptn in self.patterns: self.predictions[ptn] = the best target
DirectRules(pats) == [ptn \in Range(Keys(pats)) |-> Best(Get(pats, ptn))]

\* for ptn in self.lookup: self.predictions[ptn] = self.predictions[ptnB]
RECURSIVE ResolveLoop(_, _, _)
ResolveLoop(preds, lk, i) ==
    IF i > Len(lk) THEN preds
    ELSE ResolveLoop((lk[i].k :> preds[Best(lk[i].v)]) @@ preds, lk, i + 1)

\* self.ptnlkp[i, ptn[i]] += [ptn], for the patterns in their order
IndexKeys(pats) ==
    UNION {{<<i, pats[n].k[i]>> : i \in {j \in 1..Len(pats[n].k) :
                                            pats[n].k[j] # missing}} :
              n \in 1..Len(pats)}

BuildIndex(pats) ==
    [key \in IndexKeys(pats) |->
        SelectSeq(Keys(pats),
                  LAMBDA ptn : key[1] <= Len(ptn) /\ ptn[key[1]] = key[2])]

\* fit up to the graph: P and self.G
FitGraph(rows, targets) == BuildGraph(GroupRows(rows, targets, 1, << >>))

\* fit from the clique loop on, given the list find_cliques yields
FitTables(enum) ==
    LET pl == CliqueLoop([patterns |-> << >>, lookup |-> << >>], enum, 1)
    IN  [patterns |-> pl.patterns,
         lookup |-> pl.lookup,
         predictions |-> ResolveLoop(DirectRules(pl.patterns), pl.lookup, 1),
         ptnlkp |-> BuildIndex(pl.patterns)]

\* --------------------------------------------------------------- predict
\* self.ptnlkp[key] of a defaultdict(list)
Indexed(idx, key) == IF key \in DOMAIN idx THEN idx[key] ELSE << >>

\* the positions predict's fallback loop looks at: range(len(ptn) - 1)
SearchRange(ptn) == 1..(Len(ptn) - 1)

\* the patterns visited, in the order the loop over the positions visits them
RECURSIVE Visit(_, _, _, _)
Visit(idx, ptn, i, visited) ==
    IF i \notin SearchRange(ptn) THEN visited
    ELSE IF ptn[i] = missing THEN Visit(idx, ptn, i + 1, visited)
    ELSE Visit(idx, ptn, i + 1,
               visited \o SelectSeq(Indexed(idx, <<i, ptn[i]>>),
                                    LAMBDA b : b \notin Range(visited)))

\* candidates += [(ptnB, match+len(ptn))] or [(ptnB, match-mismatch)]
RECURSIVE Candidates(_, _, _)
Candidates(ptn, visited, n) ==
    IF n > Len(visited) THEN << >>
    ELSE LET c == compatible(ptn, visited[n])
             rest == Candidates(ptn, visited, n + 1)
         IN  IF c.match # 0 /\ c.mismatch = 0
             THEN <<[k |-> visited[n], v |-> c.match + Len(ptn)]>> \o rest
             ELSE IF c.match - c.mismatch # 0
             THEN <<[k |-> visited[n], v |-> c.match - c.mismatch]>> \o rest
             ELSE rest

\* the keys the fallback loop reads from the defaultdict, which creates them
Touched(idx, ptn) ==
    {<<i, ptn[i]>> : i \in {j \in SearchRange(ptn) : ptn[j] # missing}}

\* PredictRow with the visited patterns kept from one row to the next: a
\* pattern visited once is not visited again
PredictRowVisitedKept(st, row) ==
    IF row \in DOMAIN st.predictions
    THEN [st EXCEPT !.out = Append(@, st.predictions[row])]
    ELSE LET visited == Visit(st.ptnlkp, row, 1, << >>)
             cands == Candidates(row, visited, 1)
             idx == [key \in DOMAIN st.ptnlkp \cup Touched(st.ptnlkp, row) |->
                        SelectSeq(Indexed(st.ptnlkp, key),
                                  LAMBDA b : b \notin Range(visited))]
         IN  IF cands = << >>
             THEN [st EXCEPT !.ptnlkp = idx, !.out = Append(@, missing)]
             ELSE IF Best(cands) \notin DOMAIN st.predictions
             THEN [st EXCEPT !.ptnlkp = idx, !.raised = TRUE]
             ELSE [st EXCEPT
                      !.predictions = (row :> st.predictions[Best(cands)]) @@ @,
                      !.ptnlkp = idx,
                      !.out = Append(@, st.predictions[Best(cands)])]

\* the body of predict's loop for one row; st holds predictions, ptnlkp, out
\* and raised (self.predictions[ptn] of the chosen candidate is a KeyError
\* when the table has no entry for it)
PredictRow(st, row) ==
    IF row \in DOMAIN st.predictions
    THEN [st EXCEPT !.out = Append(@, st.predictions[row])]
    ELSE LET cands == Candidates(row, Visit(st.ptnlkp, row, 1, << >>), 1)
             idx == [key \in DOMAIN st.ptnlkp \cup Touched(st.ptnlkp, row) |->
                        Indexed(st.ptnlkp, key)]
         IN  IF cands = << >>
             THEN [st EXCEPT !.ptnlkp = idx, !.out = Append(@, missing)]
             ELSE IF Best(cands) \notin DOMAIN st.predictions
             THEN [st EXCEPT !.ptnlkp = idx, !.raised = TRUE]
             ELSE [st EXCEPT
                      !.predictions = (row :> st.predictions[Best(cands)]) @@ @,
                      !.ptnlkp = idx,
                      !.out = Append(@, st.predictions[Best(cands)])]

RECURSIVE RowLoop(_, _, _)
RowLoop(st, mx, r) ==
    IF r > Len(mx) \/ st.raised THEN st
    ELSE RowLoop(PredictRow(st, mx[r]), mx, r + 1)

\* predict(matrix)
predict(preds, idx, mx) ==
    RowLoop([predictions |-> preds, ptnlkp |-> idx, out |-> << >>,
             raised |-> FALSE], mx, 1)

\* ------------------------------------------ classifier: driver and inputs
\* the subsets of S of at most n elements
RECURSIVE UpTo(_, _)
UpTo(S, n) ==
    IF n = 0 THEN {{}}
    ELSE LET less == UpTo(S, n - 1)
         IN  less \cup {s \cup {x} : s \in less, x \in S}

RECURSIVE Code(_)
Code(t) == IF t = << >> THEN 0 ELSE 10 * Code(SubSeq(t, 1, Len(t) - 1)) + Last(t)

\* the tuples of S as a list, in ascending order
RECURSIVE Ascending(_)
Ascending(S) ==
    IF S = {} THEN << >>
    ELSE LET least == CHOOSE t \in S : \A u \in S : Code(t) <= Code(u)
         IN  <<least>> \o Ascending(S \ {least})

\* training data: distinct (row, target) tuples, listed in ascending order.
\* The order of the rows and their repetition reach the trained tables only
\* through the order find_cliques yields, which Fit chooses freely.
Tuples(srcs, tgts) == {Append(r, t) : r \in SeqsOfLen(srcs, Width), t \in tgts}

TrainingSets(srcs, tgts, n) == {Ascending(S) : S \in UpTo(Tuples(srcs, tgts), n)}

NewClassifier(tuples) ==
    /\ pc = "new"
    /\ X = [i \in 1..Len(tuples) |-> Source(tuples[i])]
    /\ y = [i \in 1..Len(tuples) |-> Target(tuples[i])]
    /\ G = [node |-> << >>, edge |-> << >>]
    /\ cliques = << >> /\ patterns = << >> /\ lookup = << >>
    /\ predictions = << >> /\ ptnlkp = << >> /\ queries = << >> /\ out = << >>
    /\ alignment = None /\ languages = None /\ IdleUngap /\ IdleAlign
    /\ IdleBaseline

InitFit ==
    \E tuples \in TrainingSets(0..FitSrcMax, 0..FitTgtMax, FitRows) :
        NewClassifier(tuples)

InitPredict ==
    \E tuples \in TrainingSets(Indices, Indices, MaxTrain) : NewClassifier(tuples)

Fit ==
    /\ pc = "new"
    /\ LET g == FitGraph(X, y)
       IN  /\ G' = g
           /\ \E enum \in Enumerations(g) :
                 LET f == FitTables(enum)
                 IN  /\ cliques' = enum
                     /\ patterns' = f.patterns
                     /\ lookup' = f.lookup
                     /\ predictions' = f.predictions
                     /\ ptnlkp' = f.ptnlkp
    /\ pc' = "fitted"
    /\ UNCHANGED <<alignment, languages, ungapVars, alignVars, X, y, queries, out,
                   blVars>>

\* one call of predict, on a matrix of one row
Predict ==
    /\ pc = "fitted"
    /\ Len(queries) < MaxPredicts
    /\ \E row \in SeqsOfLen(Indices, Width) :
          LET p == predict(predictions, ptnlkp, <<row>>)
          IN  /\ predictions' = p.predictions
              /\ ptnlkp' = p.ptnlkp
              /\ out' = Append(out, IF p.raised THEN Raise ELSE Return(p.out))
              /\ queries' = Append(queries, <<row>>)
    /\ UNCHANGED <<pc, alignment, languages, ungapVars, alignVars, X, y,
                   G, cliques, patterns, lookup, blVars>>

NextFit == Fit

SpecFit == InitFit /\ [][NextFit]_vars

NextPredict == Fit \/ Predict

SpecPredict == InitPredict /\ [][NextPredict]_vars

\* ------------------------------------------------------- claims about fit
\* the cliques, by their place in the enumeration, whose consensus has the
\* source pattern src
CliquesOf(src) ==
    {c \in 1..Len(cliques) : Source(consensus(cliques[c])) = src}

\* the first enumerated clique of the largest size among those of src
FirstLargest(src) ==
    CHOOSE c \in CliquesOf(src) :
        /\ \A d \in CliquesOf(src) : Len(cliques[d]) <= Len(cliques[c])
        /\ \A d \in CliquesOf(src) : d < c => Len(cliques[d]) < Len(cliques[c])

\* C9: the direct-rule target of a consensus source pattern is the consensus
\* target of the first enumerated clique of maximum size among the cliques
\* with that consensus source pattern.
C9_LargestCliqueWins ==
    pc = "fitted" =>
        \A n \in 1..Len(patterns) :
            Best(patterns[n].v) =
                Target(consensus(cliques[FirstLargest(patterns[n].k)]))

\* C6: after fit, the prediction of every observed source pattern that is in
\* a clique is the direct-rule target of its best consensus source pattern.
C6_ResolvedToDirectRule ==
    (pc = "fitted" /\ queries = << >>) =>
        \A n \in 1..Len(lookup) :
            predictions[lookup[n].k] = Best(Get(patterns, Best(lookup[n].v)))

\* --------------------------------------------------- claims about predict
\* the source patterns the table has an entry for when fit returns
FitKeys == Range(Keys(patterns)) \cup Range(Keys(lookup))

HasValue(ptn) == \E i \in 1..Len(ptn) : ptn[i] # missing

\* C4: fallback totality: a predict call on query patterns with at least one
\* non-missing position does not raise, and returns for each a target value
\* of the training data or the missing value.
C4_FallbackTotal ==
    \A n \in 1..Len(out) :
        (\A r \in 1..Len(queries[n]) : HasValue(queries[n][r])) =>
            /\ ~out[n].raised
            /\ Len(out[n].value) = Len(queries[n])
            /\ \A r \in 1..Len(queries[n]) :
                  out[n].value[r] \in Range(y) \cup {missing}

\* the first call missed the exact lookup and the fallback found a target
C4_Witness ==
    /\ Len(out) >= 1
    /\ HasValue(queries[1][1])
    /\ queries[1][1] \notin FitKeys
    /\ ~out[1].raised
    /\ out[1].value[1] # missing

\* with fewer than two distinct tuples the table is empty and the answer is
\* the missing value
C4_EmptyModel ==
    (Len(X) < 2 /\ Len(out) >= 1) =>
        /\ patterns = << >> /\ DOMAIN G.node = {}
        /\ \A r \in 1..Len(out[1].value) : out[1].value[r] = missing

\* the consensus patterns that have the query's value at a non-missing
\* position of the query
Sharing(q) ==
    {ptn \in Range(Keys(patterns)) :
        \E i \in 1..Len(q) : q[i] # missing /\ ptn[i] = q[i]}

\* C7: on a miss of the exact lookup the missing value is returned for lack
\* of candidates only when no consensus pattern has the query's value at a
\* non-missing position of the query (the last one included); otherwise the
\* result is the table entry of one of those consensus patterns.
C7_EveryPositionSearched ==
    (Len(out) >= 1 /\ ~out[1].raised /\ queries[1][1] \notin FitKeys) =>
        LET q == queries[1][1]
        IN  IF Sharing(q) = {}
            THEN out[1].value[1] = missing
            ELSE out[1].value[1] \in {predictions[ptn] : ptn \in Sharing(q)}

\* ------------------------------------- classifier: a sequence of predicts
\* training values of the runs with several predict calls; the queries range
\* over Indices, which has a value the training has not
HistorySources == 0..1
HistoryTargets == 1..2

InitHistory ==
    \E tuples \in TrainingSets(HistorySources, HistoryTargets, MaxTrain) :
        NewClassifier(tuples)

\* the next call of predict, on a matrix of one row
PredictNext ==
    /\ pc = "fitted"
    /\ Len(queries) < MaxCalls
    /\ \E row \in SeqsOfLen(Indices, Width) :
          LET p == predict(predictions, ptnlkp, <<row>>)
          IN  /\ predictions' = p.predictions
              /\ ptnlkp' = p.ptnlkp
              /\ out' = Append(out, IF p.raised THEN Raise ELSE Return(p.out))
              /\ queries' = Append(queries, <<row>>)
    /\ UNCHANGED <<pc, alignment, languages, ungapVars, alignVars, X, y,
                   G, cliques, patterns, lookup, blVars>>

NextHistory == Fit \/ PredictNext

SpecHistory == InitHistory /\ [][NextHistory]_vars

\* the entries of the prediction table stay, and a call adds entries only
\* under rows of its query that were not in the table, one per row at most
TableGrows ==
    /\ \A k \in DOMAIN predictions :
          k \in DOMAIN predictions' /\ predictions'[k] = predictions[k]
    /\ queries' # queries =>
          /\ (DOMAIN predictions' \ DOMAIN predictions)
                 \subseteq (Range(Last(queries')) \ DOMAIN predictions)
          /\ Cardinality(DOMAIN predictions' \ DOMAIN predictions)
                 <= Len(Last(queries'))

\* every answer so far is the answer of the freshly fitted tables
SameAsFresh ==
    LET f == FitTables(cliques)
    IN  \A n \in 1..Len(out) :
            out[n] = Return(predict(f.predictions, f.ptnlkp, queries[n]).out)

\* C11: over any sequence of predict calls after one fit the prediction
\* table only grows (a call adds entries only under query patterns that
\* missed the exact lookup and changes or removes none), the graph, the
\* cliques and the rule tables derived from them stay as fit left them, and
\* the answer to a query does not depend on the queries asked before it.
C11_TableOnlyGrows ==
    /\ [](pc = "fitted" => SameAsFresh)
    /\ [][pc = "fitted" =>
            /\ TableGrows
            /\ G' = G /\ cliques' = cliques
            /\ patterns' = patterns /\ lookup' = lookup]_vars

\* the first call cached a fallback result and a second, different query
\* that missed the exact lookup as well got a target from the fallback
C11_Witness ==
    /\ Len(out) = 2
    /\ queries[1][1] \notin FitKeys
    /\ out[1].value[1] # missing
    /\ queries[2][1] \notin FitKeys
    /\ queries[2] # queries[1]
    /\ out[2].value[1] # missing

\* ------------------------------------ classifier: the fallback's choice
\* patterns of three source positions: a query can then differ from a
\* consensus pattern in two positions and agree in one. Each position has
\* its own value besides the missing one; the queries range over Indices.
WideWidth == Width + 1

WideTuples ==
    {<<a, b, c, t>> : a \in {0, 1}, b \in {0, 2}, c \in {0, 2}, t \in Indices}

InitScore ==
    \E tuples \in {Ascending(S) : S \in UpTo(WideTuples, ScoreRows)} :
        NewClassifier(tuples)

\* one call of predict, on a matrix of one row of three source positions
PredictWide ==
    /\ pc = "fitted"
    /\ Len(queries) < MaxPredicts
    /\ \E row \in SeqsOfLen(Indices, WideWidth) :
          LET p == predict(predictions, ptnlkp, <<row>>)
          IN  /\ predictions' = p.predictions
              /\ ptnlkp' = p.ptnlkp
              /\ out' = Append(out, IF p.raised THEN Raise ELSE Return(p.out))
              /\ queries' = Append(queries, <<row>>)
    /\ UNCHANGED <<pc, alignment, languages, ungapVars, alignVars, X, y,
                   G, cliques, patterns, lookup, blVars>>

NextScore == Fit \/ PredictWide

SpecScore == InitScore /\ [][NextScore]_vars

\* the patterns the fallback search of the first query gathered, in the
\* order it discovered them, and the candidates it kept of them
Gathered == Visit(ptnlkp, queries[1][1], 1, << >>)

Kept == Candidates(queries[1][1], Gathered, 1)

Mismatches(n) == compatible(queries[1][1], Gathered[n]).mismatch

Net(n) ==
    compatible(queries[1][1], Gathered[n]).match
        - compatible(queries[1][1], Gathered[n]).mismatch

\* the gathered pattern the scoring rule names: with zero mismatches and the
\* most matches if there is one with zero mismatches, else with the largest
\* match minus mismatch; the first discovered among equals
Preferred ==
    LET zero == {n \in 1..Len(Gathered) : Mismatches(n) = 0}
        among == IF zero # {} THEN zero ELSE 1..Len(Gathered)
    IN  Gathered[CHOOSE n \in among :
                     /\ \A k \in among : Net(k) <= Net(n)
                     /\ \A k \in among : k < n => Net(k) < Net(n)]

\* the first query missed the exact lookup and the fallback chose a pattern
FallbackChose ==
    /\ pc = "fitted" /\ Len(out) = 1 /\ ~out[1].raised
    /\ queries[1][1] \notin FitKeys
    /\ Kept # << >>

\* C12: the fallback chooses, of the patterns it gathered, one with zero
\* mismatches and the largest match count if any has zero mismatches, else
\* the one with the largest match minus mismatch, and the first discovered
\* among equals; the answer is that pattern's table entry.
C12_BestScoringChosen ==
    FallbackChose =>
        /\ Best(Kept) = Preferred
        /\ out[1].value[1] = predictions[Preferred]

\* what the code does: the rule holds whenever a gathered pattern has zero
\* mismatches; otherwise the patterns whose matches and mismatches are equal
\* in number are left out and the best of the others is taken
ScoreObserved ==
    FallbackChose =>
        IF \E n \in 1..Len(Gathered) : Mismatches(n) = 0
        THEN Best(Kept) = Preferred /\ out[1].value[1] = predictions[Preferred]
        ELSE /\ \A n \in 1..Len(Kept) : Kept[n].v # 0
             /\ \E n \in 1..Len(Gathered) : Net(n) # 0 /\ Best(Kept) = Gathered[n]

\* ================================================================ Baseline
Question == <<"?">>     \* the cell of a form to predict
unknown == <<"?">>      \* Baseline.predict's parameter unknown
Languages == Range(LanguageNames)

\* a word form is a list of cells; data[language] and " ".join(...) != "?"
Known(form) == form # << >> /\ form # <<Question>>

\* s without its element i
Others(s, i) == [j \in 1..(Len(s) - 1) |-> IF j < i THEN s[j] ELSE s[j + 1]]

\* the training instances of one row of the table, one per known language:
\* the other known languages, then the language itself
InstancesOf(row) ==
    LET langs == SelectSeq(LanguageNames, LAMBDA l : Known(row.forms[l]))
        alms == [j \in 1..Len(langs) |-> row.forms[langs[j]]]
    IN  [i \in 1..Len(langs) |->
            [language |-> langs[i],
             cogid |-> row.cogid,
             languages |-> Append(Others(langs, i), langs[i]),
             alms |-> Append(Others(alms, i), alms[i])]]

\* self.alignments[language], over the rows of the table in their order
RECURSIVE AlignmentsOf(_, _, _)
AlignmentsOf(table, n, l) ==
    IF n > Len(table) THEN << >>
    ELSE SelectSeq(InstancesOf(table[n]), LAMBDA inst : inst.language = l)
         \o AlignmentsOf(table, n + 1, l)

\* self.to_predict: per cognate set the languages whose form is "?"
ToPredict(table) ==
    [n \in 1..Len(table) |->
        [cogid |-> table[n].cogid,
         languages |-> SelectSeq(LanguageNames,
                                 LAMBDA l : table[n].forms[l] = <<Question>>)]]

\* ---- the alignment step of simple_align (lingpy's Multiple.prog_align):
\* gaps are stripped and every row is filled up with gaps to the length of the
\* longest row. Where the gaps go is the aligner's choice; side is "left" or
\* "right".
StripGaps(seq) == SelectSeq(seq, LAMBDA c : c # Gap)

Longest(seqs) ==
    IF seqs = << >> THEN 0
    ELSE CHOOSE n \in {Len(seqs[j]) : j \in 1..Len(seqs)} :
             \A j \in 1..Len(seqs) : Len(seqs[j]) <= n

Align(seqs, side) ==
    LET stripped == [j \in 1..Len(seqs) |-> StripGaps(seqs[j])]
        fill(j) == [k \in 1..(Longest(stripped) - Len(stripped[j])) |-> Gap]
    IN  [j \in 1..Len(seqs) |->
            IF side = "left" THEN fill(j) \o stripped[j]
            ELSE stripped[j] \o fill(j)]

\* self.func: simple_align with its alignment step
func(seqs, langs, all_langs, train, side) ==
    simple_align(Align(seqs, side), langs, all_langs, train)

\* ---- the sound alphabet
\* Python's order of the one-character sounds
CharOrder == <<"-", "?", "a", "b", "d", "g", "i", "k", "p", "t", "u", "Ø">>
Rank(ch) == CHOOSE i \in 1..Len(CharOrder) : CharOrder[i] = ch

\* a < b for two cells, as Python compares the strings "x.y.z"
RECURSIVE CellLess(_, _)
CellLess(a, b) ==
    IF a = << >> THEN b # << >>
    ELSE IF b = << >> THEN FALSE
    ELSE IF Head(a) # Head(b) THEN Rank(Head(a)) < Rank(Head(b))
    ELSE CellLess(Tail(a), Tail(b))

\* sorted(sounds)
RECURSIVE Sorted(_)
Sorted(S) ==
    IF S = {} THEN << >>
    ELSE LET least == CHOOSE c \in S : \A d \in S \ {c} : CellLess(c, d)
         IN  <<least>> \o Sorted(S \ {least})

\* dict(zip(sorted(sounds), range(2, len(sounds)+2))), from position i on
RECURSIVE Zip(_, _)
Zip(sorted, i) ==
    IF i > Len(sorted) THEN << >>
    ELSE <<[k |-> sorted[i], v |-> i + 1]>> \o Zip(sorted, i + 1)

\* Alphabet without the entry of the missing value
AlphabetNoMissing(sounds) == Put(Zip(Sorted(sounds), 1), Gap, 1)

\* self.sound2idx: the sorted sounds from 2 on, then the gap 1 and missing 0
Alphabet(sounds) == Put(Put(Zip(Sorted(sounds), 1), Gap, 1), Missing, 0)

\* self.sound2idx.get(char, 0)
Encode(s2i, c) == GetOr(s2i, c, 0)

\* self.idx2sound.get(idx, unknown), idx2sound the inverse of sound2idx
Decode(s2i, idx) ==
    IF \E i \in 1..Len(s2i) : s2i[i].v = idx
    THEN s2i[CHOOSE i \in 1..Len(s2i) : s2i[i].v = idx].k
    ELSE unknown

\* ---- Baseline.fit
\* self.patterns[language][ptn][row[-1]] += [(cogid, i)] for the rows of one
\* alignment matrix, from row r on
RECURSIVE AddRows(_, _, _, _)
AddRows(P, mtx, cogid, r) ==
    IF r > Len(mtx) THEN P
    ELSE LET ptn == SubSeq(mtx[r], 1, Len(LanguageNames) - 1)
             sound == Last(mtx[r])
             d == GetOr(P, ptn, << >>)
         IN  AddRows(Put(P, ptn, Put(d, sound,
                            Append(GetOr(d, sound, << >>), <<cogid, r - 1>>))),
                     mtx, cogid, r + 1)

\* the loop over self.alignments[language], from instance k on; acc is
\* [patterns, raised]
RECURSIVE AddInstances(_, _, _, _)
AddInstances(acc, insts, k, side) ==
    IF k > Len(insts) \/ acc.raised THEN acc
    ELSE LET m == func(insts[k].alms, insts[k].languages, LanguageNames, TRUE,
                       side)
         IN  IF m.raised THEN [acc EXCEPT !.raised = TRUE]
             ELSE AddInstances(
                      [acc EXCEPT !.patterns =
                          AddRows(@, m.value, insts[k].cogid, 1)],
                      insts, k + 1, side)

\* self.patterns after the first loop of fit, from language n on
RECURSIVE PatternsOf(_, _, _)
PatternsOf(alms, side, n) ==
    IF n > Len(LanguageNames) THEN << >>
    ELSE (LanguageNames[n] :>
             AddInstances([patterns |-> << >>, raised |-> FALSE],
                          alms[LanguageNames[n]], 1, side))
         @@ PatternsOf(alms, side, n + 1)

\* the set sounds after the first loop of fit
SoundsIn(P) ==
    UNION {UNION {Range(P[l][n].k) \cup {P[l][n].v[j].k : j \in 1..Len(P[l][n].v)} :
                     n \in 1..Len(P[l])} : l \in Languages}

\* self.matrices[language] and self.solutions[language]: one row per
\* (cogid, idx) of every sound of every pattern, in the order of the dicts
RECURSIVE Rows(_, _, _, _, _)
Rows(P, s2i, n, j, acc) ==
    IF n > Len(P) THEN acc
    ELSE IF j > Len(P[n].v) THEN Rows(P, s2i, n + 1, 1, acc)
    ELSE LET row == [c \in 1..Len(P[n].k) |-> Get(s2i, P[n].k[c])]
             target == Get(s2i, P[n].v[j].k)
             times == Len(P[n].v[j].v)
         IN  Rows(P, s2i, n, j + 1,
                  [matrix |-> acc.matrix \o [t \in 1..times |-> row],
                   solution |-> acc.solution \o [t \in 1..times |-> target]])

\* the second loop of fit up to the classifiers' fit, from language n on
RECURSIVE TrainingData(_, _, _)
TrainingData(P, s2i, n) ==
    IF n > Len(LanguageNames) THEN << >>
    ELSE (LanguageNames[n] :>
             Rows(P[LanguageNames[n]].patterns, s2i, 1, 1,
                  [matrix |-> << >>, solution |-> << >>]))
         @@ TrainingData(P, s2i, n + 1)

\* fit up to the classifiers' fit: the patterns, the alphabet, the training data
Prepare(alms, side) ==
    LET acc == PatternsOf(alms, side, 1)
        P == [l \in Languages |-> acc[l].patterns]
        s2i == Alphabet(SoundsIn(P))
        rows == TrainingData(acc, s2i, 1)
    IN  [raised |-> \E l \in Languages : acc[l].raised,
         patterns |-> P,
         sound2idx |-> s2i,
         matrices |-> [l \in Languages |-> rows[l].matrix],
         solutions |-> [l \in Languages |-> rows[l].solution]]

\* self.classifiers[language].fit(...) for the languages from n on: every
\* outcome the order of find_cliques allows
RECURSIVE FitClassifiers(_, _, _)
FitClassifiers(mx, sol, n) ==
    IF n > Len(LanguageNames) THEN {<< >>}
    ELSE LET l == LanguageNames[n]
         IN  {(l :> FitTables(enum)) @@ rest :
                 enum \in Enumerations(FitGraph(mx[l], sol[l])),
                 rest \in FitClassifiers(mx, sol, n + 1)}

\* a classifier before its fit
Unfitted == [patterns |-> << >>, lookup |-> << >>, predictions |-> << >>,
             ptnlkp |-> << >>]

\* ---- Baseline.predict
\* the matrix of the known forms over the languages other than the target,
\* encoded, predicted by the target's classifier and decoded
EncodeMatrix(s2i, mtx) ==
    [r \in 1..Len(mtx) |-> [c \in 1..Len(mtx[r]) |-> Encode(s2i, mtx[r][c])]]

BaselinePredictCall(clf, s2i, langs, forms, target, side) ==
    LET m == func(forms, langs,
                  SelectSeq(LanguageNames, LAMBDA l : l # target), FALSE, side)
    IN  IF m.raised THEN [raised |-> TRUE, clf |-> clf, out |-> << >>]
        ELSE LET p == predict(clf.predictions, clf.ptnlkp,
                              EncodeMatrix(s2i, m.value))
             IN  [raised |-> p.raised,
                  clf |-> [clf EXCEPT !.predictions = p.predictions,
                                      !.ptnlkp = p.ptnlkp],
                  out |-> [i \in 1..Len(p.out) |-> Decode(s2i, p.out[i])]]

\* ------------------------------------------- Baseline: driver and inputs
\* the forms of a table cell: absent, to predict, or 1..MaxFormLen sounds
WordForms == UNION {SeqsOfLen(Sounds, n) : n \in 1..MaxFormLen}
TableForms == {<< >>, <<Question>>} \cup WordForms

\* the table of the end-to-end example
Form(a, b) == <<<<a>>, <<b>>>>
EndToEndTable ==
    << [cogid |-> 1, forms |-> [l \in Languages |->
            IF l = "C" THEN Form("b", "a") ELSE Form("p", "a")]],
       [cogid |-> 2, forms |-> [l \in Languages |->
            IF l = "C" THEN Form("d", "i") ELSE Form("t", "i")]] >>

\* Baseline(datapath) on the table
NewBaseline(table, side) ==
    /\ pc = "built"
    /\ data = table
    /\ alignments = [l \in Languages |-> AlignmentsOf(table, 1, l)]
    /\ to_predict = ToPredict(table)
    /\ bpatterns = None /\ sound2idx = None /\ matrices = None
    /\ solutions = None
    /\ classifiers = [l \in Languages |-> Unfitted]
    /\ request = None /\ result = None
    /\ aligner = side
    /\ alignment = None /\ languages = None
    /\ IdleUngap /\ IdleAlign /\ IdleClassifier

\* one cognate set of forms of up to MaxFormLen sounds, or two cognate sets of
\* forms of one sound
ShortForms == {<< >>, <<Question>>} \cup SeqsOfLen(Sounds, 1)

InitBaseline ==
    \E side \in {"left", "right"} :
        \/ \E f \in [Languages -> TableForms] :
               NewBaseline(<<[cogid |-> 1, forms |-> f]>>, side)
        \/ \E f \in [Languages -> ShortForms], h \in [Languages -> ShortForms] :
               NewBaseline(<<[cogid |-> 1, forms |-> f],
                             [cogid |-> 2, forms |-> h]>>, side)

InitEndToEnd ==
    \E side \in {"left", "right"} : NewBaseline(EndToEndTable, side)

BaselineFit ==
    /\ pc = "built"
    /\ LET f == Prepare(alignments, aligner)
       IN  /\ bpatterns' = f.patterns
           /\ IF f.raised
              THEN /\ pc' = "raised"
                   /\ UNCHANGED <<sound2idx, matrices, solutions, classifiers>>
              ELSE /\ pc' = "bfitted"
                   /\ sound2idx' = f.sound2idx
                   /\ matrices' = f.matrices
                   /\ solutions' = f.solutions
                   /\ classifiers' \in
                          FitClassifiers(f.matrices, f.solutions, 1)
    /\ UNCHANGED <<alignment, languages, ungapVars, alignVars, clfVars,
                   data, alignments, to_predict, request, result, aligner>>

NextBaselineFit == BaselineFit

SpecBaseline == InitBaseline /\ [][NextBaselineFit]_vars

\* what a caller hands to Baseline.predict: the known forms of the languages
\* other than the target, in canonical order, at least one of them
QueryForms == WordForms \cup {Form("k", "u")}

Requests ==
    {[target |-> t,
      languages |-> SelectSeq(LanguageNames, LAMBDA l : l # t /\ f[l] # << >>),
      alignments |-> [j \in 1..Len(SelectSeq(LanguageNames,
                                             LAMBDA l : l # t /\ f[l] # << >>)) |->
                        f[SelectSeq(LanguageNames,
                                    LAMBDA l : l # t /\ f[l] # << >>)[j]]]] :
        t \in Languages, f \in [Languages -> {<< >>} \cup QueryForms]}

BaselinePredict ==
    /\ pc = "bfitted"
    /\ \E r \in Requests :
          /\ r.languages # << >>
          /\ LET p == BaselinePredictCall(classifiers[r.target], sound2idx,
                                          r.languages, r.alignments, r.target,
                                          aligner)
             IN  /\ request' = r
                 /\ result' = IF p.raised THEN Raise ELSE Return(p.out)
                 /\ classifiers' = [classifiers EXCEPT ![r.target] = p.clf]
    /\ pc' = "predicted"
    /\ UNCHANGED <<alignment, languages, ungapVars, alignVars, clfVars,
                   data, alignments, to_predict, bpatterns, sound2idx, matrices,
                   solutions, aligner>>

NextEndToEnd == BaselineFit \/ BaselinePredict

SpecEndToEnd == InitEndToEnd /\ [][NextEndToEnd]_vars

\* ------------------------------------------------------ Baseline: claims
\* the row of the table with this cognate set identifier
RowOf(cogid) == data[CHOOSE n \in 1..Len(data) : data[n].cogid = cogid]

KnownForms(row) == Cardinality({l \in Languages : Known(row.forms[l])})

\* the pairs fit accumulated for language l, each with its place (cogid, i)
Pairs(l) ==
    UNION {UNION {{[ptn |-> bpatterns[l][n].k,
                    sound |-> bpatterns[l][n].v[j].k,
                    cogid |-> bpatterns[l][n].v[j].v[t][1],
                    i |-> bpatterns[l][n].v[j].v[t][2]] :
                      t \in 1..Len(bpatterns[l][n].v[j].v)} :
                   j \in 1..Len(bpatterns[l][n].v)} :
              n \in 1..Len(bpatterns[l])}

\* the training instance of language l for a cognate set
InstanceOf(l, cogid) ==
    alignments[l][CHOOSE k \in 1..Len(alignments[l]) :
                      alignments[l][k].cogid = cogid]

\* the aligned and merged rows of an instance, its own language last; the
\* value of language l in column i (counted from 0), missing if l is absent
Merged(inst) ==
    ungap(Align(inst.alms, aligner), inst.languages, Last(inst.languages))

ValueOf(inst, l, i) ==
    IF \E j \in 1..Len(inst.languages) : inst.languages[j] = l
    THEN Merged(inst)[CHOOSE j \in 1..Len(inst.languages) :
                          inst.languages[j] = l][i + 1]
    ELSE Missing

OtherLanguages(l) == SelectSeq(LanguageNames, LAMBDA o : o # l)

\* C1: every (pattern, target) pair that fit accumulates for a language L
\* from one of L's training instances has L's own aligned value of that
\* column as its target and the values of the other languages, in canonical
\* order and without L's own, as its pattern.
C1_TargetIsOwnValue ==
    pc = "bfitted" =>
        \A l \in Languages : \A p \in Pairs(l) :
            LET inst == InstanceOf(l, p.cogid)
            IN  /\ p.sound = ValueOf(inst, l, p.i)
                /\ p.ptn = [c \in 1..(Len(LanguageNames) - 1) |->
                               ValueOf(inst, OtherLanguages(l)[c], p.i)]

\* what the code does instead: whatever the language, the target is the
\* value of the last canonical language and the pattern the values of all
\* the languages before it, the instance's own language among them
BaselineFitObserved ==
    pc = "bfitted" =>
        \A l \in Languages : \A p \in Pairs(l) :
            LET inst == InstanceOf(l, p.cogid)
            IN  /\ p.sound = ValueOf(inst, Last(LanguageNames), p.i)
                /\ p.ptn = [c \in 1..(Len(LanguageNames) - 1) |->
                               ValueOf(inst, LanguageNames[c], p.i)]

\* C10: training instances come only from cognate sets with known forms in
\* at least two languages: a cognate set with one known form contributes no
\* instance and no (pattern, target) pair to any language.
C10_TwoKnownForms ==
    /\ pc \in {"built", "bfitted"} =>
          \A l \in Languages : \A k \in 1..Len(alignments[l]) :
              KnownForms(RowOf(alignments[l][k].cogid)) >= 2
    /\ pc = "bfitted" =>
          \A l \in Languages : \A p \in Pairs(l) :
              KnownForms(RowOf(p.cogid)) >= 2

\* what the code does instead: one instance per known form, whatever their
\* number
InstancesObserved ==
    pc \in {"built", "bfitted"} =>
        \A l \in Languages : \A n \in 1..Len(data) :
            Known(data[n].forms[l]) <=>
                \E k \in 1..Len(alignments[l]) :
                    alignments[l][k].cogid = data[n].cogid

\* the call of the end-to-end example and the rows its classifier is asked
EndToEndRequest ==
    [target |-> "C", languages |-> <<"A", "B">>,
     alignments |-> <<Form("k", "u"), Form("k", "u")>>]

EndToEndCall ==
    pc = "predicted" /\ data = EndToEndTable /\ request = EndToEndRequest

EndToEndRows ==
    EncodeMatrix(sound2idx, MatrixOf(request.alignments, request.languages,
                                     OtherLanguages(request.target)))

\* C2 as stated: after fit on the two cognate sets p a / p a / b a and
\* t i / t i / d i, predict for target C with A = k u and B = k u returns
\* g u.
C2_ReturnsGU ==
    EndToEndCall => result = Return(<<<<"g">>, <<"u">>>>)

\* C2 as amended: that call returns the missing symbol for both columns; no
\* row of the query is in the prediction table of C (no exact hit), every
\* cell of the query is encoded as missing, and the fallback search leaves
\* the table of C as it was.
C2_ReturnsMissing ==
    EndToEndCall =>
        /\ result = Return(<<Missing, Missing>>)
        /\ \A r \in 1..Len(EndToEndRows) :
              /\ EndToEndRows[r] \notin DOMAIN classifiers["C"].predictions
              /\ \A c \in 1..Len(EndToEndRows[r]) : EndToEndRows[r][c] = missing
        /\ classifiers["C"].predictions = << >>

C2_Witness == EndToEndCall /\ Len(result.value) = 2

====
